---- MODULE Spec2Model ----
(***************************************************************************)
(* Model of search_for_statusdb_interactions.py: the curation table        *)
(* (ManualCuration), the syntax-tree visitor (FunctionCallVisitor), the    *)
(* per-file resolution loop (check_file) and the driver (main).            *)
(*                                                                         *)
(* Python strings are sequences of indivisible symbols, so that            *)
(* concatenation is \o, equality is sequence equality and the substring    *)
(* test `"<variable:" in s` is a membership test on the symbols.  The      *)
(* parsed source of a file is the pre-order token sequence of its syntax   *)
(* tree: a FunctionDef or ClassDef token opens a definition, the matching  *)
(* End token closes it, a Call token is a call expression.  Every token    *)
(* sits on its own line, so a token's index is its line number.            *)
(*                                                                         *)
(* The visitor has handlers for ClassDef, FunctionDef and Call nodes only, *)
(* so these are the nodes of a source; a call is a leaf (calls nested in   *)
(* the arguments of a call are left out).  An uncaught exception ends the  *)
(* run: no function of the program catches one.                            *)
(***************************************************************************)
EXTENDS Integers, Sequences, FiniteSets, TLC

\* ------------------------------------------------------------------ bounds
MaxFiles == 2   \* files of one run (explicit list followed by walked ones)
MaxNodes == 4   \* syntax nodes (definitions and calls) of a generated source
MaxDepth == 3   \* nesting depth of definitions of a generated source
MaxArgs  == 2   \* positional arguments of a generated call

\* ------------------------------------------------------------------ strings
\* f"<variable:{id}>"
Marker(id) == <<"<variable:", id, ">">>

\* "<variable:" in s
HasMarker(s) == \E i \in DOMAIN s : s[i] = "<variable:"

\* The value None; as text it prints as "None", which is no legal identifier.
None == <<"None">>

\* A Python value held in Context.argument: a str, or some other object
\* (a number, bytes, None, a syntax node) shown by its repr.
PyStr(s) == [type |-> "str", v |-> s]
PyObj(r) == [type |-> "object", v |-> r]

\* ---------------------------------------------------------------- syntax
target_function == "view_call"

FunctionDef(name) == [t |-> "FunctionDef", name |-> name]
ClassDef(name)    == [t |-> "ClassDef", name |-> name]
End(of)           == [t |-> "End", of |-> of]
Call(func, args, keywords) ==
    [t |-> "Call", func |-> func, args |-> args, keywords |-> keywords]

\* expressions
Name(id)               == [k |-> "Name", id |-> id]
Attribute(value, attr) == [k |-> "Attribute", value |-> value, attr |-> attr]
Subscript(value)       == [k |-> "Subscript", value |-> value]
Constant(value)        == [k |-> "Constant", value |-> value]
CallExpr(id)           == [k |-> "Call", id |-> id]
FormattedValue(value)  == [k |-> "FormattedValue", value |-> value]
JoinedStr(values)      == [k |-> "JoinedStr", values |-> values]

\* All sequences over S of length at most n.
SeqsUpTo(S, n) == UNION {[1..m -> S] : m \in 0..n}

\* ---------------------------------------------------------------- Context
Context(file_name, line_number, object, argument, keyword_arguments, function_scope, class_scope) ==
    [file_name |-> file_name, line_number |-> line_number, object |-> object,
     argument |-> argument, keyword_arguments |-> keyword_arguments,
     function_scope |-> function_scope, class_scope |-> class_scope]

\* `x if x else ""`: None and the empty string are both falsy.
OrEmpty(x) == IF x = None \/ x = <<>> THEN <<>> ELSE x

to_key(context) ==
    <<context.file_name, OrEmpty(context.class_scope),
      OrEmpty(context.function_scope)>>

\* `"<variable:" in self.argument` is evaluated first and raises TypeError
\* when the argument is not a str.
has_variables_raises(context) == context.argument.type # "str"

has_variables(context) ==
    HasMarker(context.argument.v) \/ HasMarker(context.object)

\* --------------------------------------------------------- ManualCuration
RequiredColumns ==
    {"Path", "Class", "Function", "Database_variable_name",
     "Database_variable_value", "View_variable_name", "View_variable_value"}

key_t(row) == <<row["Path"], row["Class"], row["Function"]>>

val_t(row) ==
    <<row["Database_variable_name"], row["Database_variable_value"],
      row["View_variable_name"], row["View_variable_value"]>>

\* row[[...]] raises KeyError when a selected column is not in the frame.
row_raises(row) == ~(RequiredColumns \subseteq DOMAIN row)

\* read_table raises on a resource that cannot be read; the loop over the
\* rows raises on the first row when a column is missing.  Without rows the
\* loop body never runs.
parse_raises(res) ==
    \/ ~res.readable
    \/ \E i \in DOMAIN res.rows : row_raises(res.rows[i])

RECURSIVE parse_loop(_, _, _)
parse_loop(rows, i, flds) ==
    IF i > Len(rows) THEN flds
    ELSE LET k == key_t(rows[i])
             v == val_t(rows[i])
             next == IF k \in DOMAIN flds
                     THEN [flds EXCEPT ![k] = Append(@, v)]
                     ELSE [x \in DOMAIN flds \cup {k} |->
                              IF x = k THEN <<v>> ELSE flds[x]]
         IN  parse_loop(rows, i + 1, next)

parse_fields(res) == parse_loop(res.rows, 1, <<>>)

\* Faulty variant: the entry names the bare variables, without the marker.
entry_matches_bare(context, v) ==
    context.object = Marker(v[1][1]) /\ context.argument = PyStr(Marker(v[3][1]))

\* context.object == val_t[0] and context.argument == val_t[2]
entry_matches(context, v) ==
    context.object = v[1] /\ context.argument = PyStr(v[3])

\* The Context built from a matching entry.
curated_context(context, v) ==
    Context(context.file_name, context.line_number, v[2], PyStr(v[4]),
            context.keyword_arguments, context.function_scope,
            context.class_scope)

RECURSIVE curation_loop(_, _, _, _)
curation_loop(vals, i, context, new_contexts) ==
    IF i > Len(vals) THEN new_contexts
    ELSE curation_loop(vals, i + 1, context,
             IF entry_matches(context, vals[i])
             THEN Append(new_contexts, curated_context(context, vals[i]))
             ELSE new_contexts)

compare_against_manual_curation(flds, context) ==
    IF to_key(context) \in DOMAIN flds
    THEN curation_loop(flds[to_key(context)], 1, context, <<>>)
    ELSE <<>>

\* ---------------------------------------------------- FunctionCallVisitor
RECURSIVE handle_joined_str(_)
handle_joined_str(values) ==
    IF values = <<>> THEN <<>>
    ELSE (IF Head(values).k = "FormattedValue"
          THEN Marker(Head(values).value.id)
          ELSE Head(values).value.v)
         \o handle_joined_str(Tail(values))

\* value.value.id raises AttributeError unless the interpolated expression
\* is a bare name.
joined_str_raises(values) ==
    \E i \in DOMAIN values :
        values[i].k = "FormattedValue" /\ values[i].value.k # "Name"

\* The else branch reads arg.value: AttributeError on a node without it.
arg_raises(arg) ==
    CASE arg.k = "Name" -> FALSE
      [] arg.k = "JoinedStr" -> joined_str_raises(arg.values)
      [] OTHER -> arg.k \notin {"Constant", "Attribute", "Subscript"}

arg_value(arg) ==
    CASE arg.k = "Name" -> PyStr(Marker(arg.id))
      [] arg.k = "JoinedStr" -> PyStr(handle_joined_str(arg.values))
      [] arg.k = "Constant" -> arg.value
      [] OTHER -> PyObj(<<"<ast node>">>)

\* argument = ""; for arg in node.args: argument = ...
RECURSIVE args_loop(_, _, _)
args_loop(args, i, argument) ==
    IF i > Len(args) THEN argument
    ELSE args_loop(args, i + 1, arg_value(args[i]))

argument_of(node) == args_loop(node.args, 1, PyStr(<<>>))

args_raise(node) == \E i \in DOMAIN node.args : arg_raises(node.args[i])

\* node.func.value.attr raises AttributeError unless the receiver is a name
\* or an attribute access.
object_raises(node) == node.func.value.k \notin {"Name", "Attribute"}

\* Faulty variant: the base of the attribute access is compared with db.
object_of_base(node) ==
    IF node.func.value.k = "Name" THEN Marker(node.func.value.id)
    ELSE IF node.func.value.value = Name("db") THEN Marker("db")
    ELSE <<node.func.value.attr>>

object_of(node) ==
    IF node.func.value.k = "Name" THEN Marker(node.func.value.id)
    ELSE IF node.func.value.attr = "db" THEN Marker("db")
    ELSE <<node.func.value.attr>>

is_target(node) ==
    node.func.k = "Attribute" /\ node.func.attr = target_function

kw_arguments(node) == node.keywords

\* ------------------------------------------------------------- check_file
suggestion_line(context) ==
    to_key(context)[1] \o <<",">> \o to_key(context)[2] \o <<",">>
    \o to_key(context)[3] \o <<",">> \o context.object \o <<",">>
    \o (IF HasMarker(context.object)
        THEN <<"---possible db value---">> ELSE context.object)
    \o <<",">> \o context.argument.v \o <<",">>
    \o (IF HasMarker(context.argument.v)
        THEN <<"---possible view value---">> ELSE context.argument.v)
    \o <<"\n">>

\* os.path.join(dirpath, file_name) for a walked file
file_path(entry) ==
    IF entry.walked THEN entry.dirpath \o <<"/">> \o entry.file_name
    ELSE entry.file_name

\* file_name.endswith(".py")
endswith_py(file_name) ==
    file_name # <<>> /\ file_name[Len(file_name)] = ".py"

\* ------------------------------------------------------------------ state
VARIABLES
    pc,                \* "parse", "main", "check_file", "done", or the uncaught
                       \* exception that ended the run: "load_error" (raised by
                       \* parse), "file_error" (raised by check_file)
    resource,          \* the manual curation file
    fields,            \* ManualCuration.fields
    files,             \* the explicit files, then the files os.walk yields
    fileIdx,           \* position of main's loops in files
    pos,               \* the token the visitor is at
    current_function,  \* FunctionCallVisitor.current_function
    current_class,     \* FunctionCallVisitor.current_class
    prev_function,     \* FunctionCallVisitor.prev_function
    function_calls,    \* FunctionCallVisitor.function_calls
    ctxIdx,            \* position of check_file's loop in function_calls
    out                \* the lines printed and the suggestions logged

vars == <<pc, resource, fields, files, fileIdx, pos, current_function,
          current_class, prev_function, function_calls, ctxIdx, out>>

visitor == <<pos, current_function, current_class, prev_function,
             function_calls, ctxIdx>>

\* The parsed source of the file main is at.
Src == files[fileIdx].content.src

InVisit == pc = "check_file" /\ pos <= Len(Src)

\* ---------------------------------------------------------------- actions
\* main: manual_curator.parse()
parse ==
    /\ pc = "parse"
    /\ IF parse_raises(resource)
       THEN pc' = "load_error" /\ fields' = fields
       ELSE pc' = "main" /\ fields' = parse_fields(resource)
    /\ UNCHANGED <<resource, files, fileIdx, visitor, out>>

\* main's loops reach the next file: a walked file that is no .py file is
\* passed over; otherwise check_file opens and parses it and constructs the
\* visitor.
main_loop ==
    /\ pc = "main"
    /\ fileIdx <= Len(files)
    /\ LET entry == files[fileIdx]
       IN  IF entry.walked /\ ~endswith_py(entry.file_name)
           THEN /\ fileIdx' = fileIdx + 1
                /\ UNCHANGED <<pc, visitor>>
           ELSE IF entry.content.status # "ok"
           THEN /\ pc' = "file_error"
                /\ UNCHANGED <<fileIdx, visitor>>
           ELSE /\ pc' = "check_file"
                /\ pos' = 1
                /\ current_function' = None
                /\ current_class' = None
                /\ prev_function' = None
                /\ function_calls' = <<>>
                /\ ctxIdx' = 1
                /\ UNCHANGED fileIdx
    /\ UNCHANGED <<resource, fields, files, out>>

visit_ClassDef ==
    /\ InVisit
    /\ Src[pos].t = "ClassDef"
    /\ current_class' = Src[pos].name
    /\ pos' = pos + 1
    /\ UNCHANGED <<pc, resource, fields, files, fileIdx, current_function,
                   prev_function, function_calls, ctxIdx, out>>

\* generic_visit of the class has returned
visit_ClassDef_return ==
    /\ InVisit
    /\ Src[pos].t = "End" /\ Src[pos].of = "ClassDef"
    /\ current_class' = None
    /\ pos' = pos + 1
    /\ UNCHANGED <<pc, resource, fields, files, fileIdx, current_function,
                   prev_function, function_calls, ctxIdx, out>>

visit_FunctionDef ==
    /\ InVisit
    /\ Src[pos].t = "FunctionDef"
    /\ prev_function' = current_function
    /\ current_function' = Src[pos].name
    /\ pos' = pos + 1
    /\ UNCHANGED <<pc, resource, fields, files, fileIdx, current_class,
                   function_calls, ctxIdx, out>>

\* Faulty variant: the function scope is cleared instead of restored.
visit_FunctionDef_return_cleared ==
    /\ InVisit
    /\ Src[pos].t = "End" /\ Src[pos].of = "FunctionDef"
    /\ current_function' = None
    /\ pos' = pos + 1
    /\ UNCHANGED <<pc, resource, fields, files, fileIdx, current_class,
                   prev_function, function_calls, ctxIdx, out>>

\* generic_visit of the function has returned
visit_FunctionDef_return ==
    /\ InVisit
    /\ Src[pos].t = "End" /\ Src[pos].of = "FunctionDef"
    /\ current_function' = prev_function
    /\ pos' = pos + 1
    /\ UNCHANGED <<pc, resource, fields, files, fileIdx, current_class,
                   prev_function, function_calls, ctxIdx, out>>

visit_Call ==
    /\ InVisit
    /\ Src[pos].t = "Call"
    /\ LET node == Src[pos]
       IN  IF ~is_target(node)
           THEN /\ pos' = pos + 1
                /\ UNCHANGED <<pc, function_calls>>
           ELSE IF args_raise(node) \/ object_raises(node)
           THEN /\ pc' = "file_error"
                /\ UNCHANGED <<pos, function_calls>>
           ELSE /\ function_calls' =
                       Append(function_calls,
                              Context(file_path(files[fileIdx]), pos,
                                      object_of(node), argument_of(node),
                                      kw_arguments(node), current_function,
                                      current_class))
                /\ pos' = pos + 1
                /\ UNCHANGED pc
    /\ UNCHANGED <<resource, fields, files, fileIdx, current_function,
                   current_class, prev_function, ctxIdx, out>>

\* Context.print of every context of a list
RECURSIVE printed(_, _, _)
printed(contexts, file, idx) ==
    IF contexts = <<>> THEN <<>>
    ELSE <<[kind |-> "print", file |-> file, idx |-> idx,
            ctx |-> Head(contexts)]>>
         \o printed(Tail(contexts), file, idx)

\* one round of check_file's loop over visitor.function_calls
check_file_loop ==
    /\ pc = "check_file"
    /\ pos > Len(Src)
    /\ ctxIdx <= Len(function_calls)
    /\ LET context == function_calls[ctxIdx]
           extra_contexts == compare_against_manual_curation(fields, context)
       IN  IF extra_contexts # <<>>
           THEN /\ out' = out \o printed(extra_contexts, fileIdx, ctxIdx)
                /\ ctxIdx' = ctxIdx + 1
                /\ UNCHANGED pc
           ELSE IF has_variables_raises(context)
           THEN /\ pc' = "file_error"
                /\ UNCHANGED <<ctxIdx, out>>
           ELSE IF has_variables(context)
           THEN /\ out' = Append(out, [kind |-> "suggestion", file |-> fileIdx,
                                       idx |-> ctxIdx,
                                       text |-> suggestion_line(context)])
                /\ ctxIdx' = ctxIdx + 1
                /\ UNCHANGED pc
           ELSE /\ out' = out \o printed(<<context>>, fileIdx, ctxIdx)
                /\ ctxIdx' = ctxIdx + 1
                /\ UNCHANGED pc
    /\ UNCHANGED <<resource, fields, files, fileIdx, pos, current_function,
                   current_class, prev_function, function_calls>>

\* check_file returns to main's loop
check_file_return ==
    /\ pc = "check_file"
    /\ pos > Len(Src)
    /\ ctxIdx > Len(function_calls)
    /\ pc' = "main"
    /\ fileIdx' = fileIdx + 1
    /\ UNCHANGED <<resource, fields, files, visitor, out>>

\* main returns after the last file
main_return ==
    /\ pc = "main"
    /\ fileIdx > Len(files)
    /\ pc' = "done"
    /\ UNCHANGED <<resource, fields, files, fileIdx, visitor, out>>

\* ----------------------------------------------------------------- inputs
Row(path, class, function, db_name, db_value, view_name, view_value) ==
    [Path |-> path, Class |-> class, Function |-> function,
     Database_variable_name |-> db_name, Database_variable_value |-> db_value,
     View_variable_name |-> view_name, View_variable_value |-> view_value]

\* A curation file with the given header columns and data rows.
Resource(readable, columns, rows) ==
    [readable |-> readable, columns |-> columns,
     rows |-> [i \in DOMAIN rows |-> [c \in columns |-> rows[i][c]]]]

ExplicitFile(file_name, status, src) ==
    [walked |-> FALSE, dirpath |-> <<>>, file_name |-> file_name,
     content |-> [status |-> status, src |-> src]]

WalkedFile(dirpath, file_name, status, src) ==
    [walked |-> TRUE, dirpath |-> dirpath, file_name |-> file_name,
     content |-> [status |-> status, src |-> src]]

TargetCall(receiver, args, keywords) ==
    Call(Attribute(receiver, target_function), args, keywords)

InFunction(name, body) ==
    <<FunctionDef(name)>> \o body \o <<End("FunctionDef")>>

InClass(name, body) == <<ClassDef(name)>> \o body \o <<End("ClassDef")>>

APy == <<"a", ".py">>

\* class Foo: def bar(self): self.coll.view_call("x")
ScenarioA ==
    InClass(<<"Foo">>, InFunction(<<"bar">>,
        <<TargetCall(Attribute(Name("self"), "coll"),
                     <<Constant(PyStr(<<"x">>))>>, <<>>)>>))

\* def f(): db.view.view_call(some_var)
ScenarioB ==
    InFunction(<<"f">>,
        <<TargetCall(Attribute(Name("db"), "view"), <<Name("some_var")>>,
                     <<>>)>>)

\* --- a whole run: a few files, curation files sound and broken
\* resolves the call of ScenarioB, whose receiver is recorded as view
RunRow ==
    Row(<<"b", ".py">>, <<>>, <<"f">>, <<"view">>, <<"users_db">>,
        Marker("some_var"), <<"user_view">>)

RunResources ==
    {Resource(FALSE, {}, <<>>)}
    \cup {Resource(TRUE, cols, rows) :
            cols \in {RequiredColumns,
                      RequiredColumns \ {"View_variable_value"}},
            rows \in {<<>>, <<RunRow>>}}

RunFiles ==
    {ExplicitFile(APy, "ok", ScenarioA),
     ExplicitFile(<<"b", ".py">>, "ok", ScenarioB),
     ExplicitFile(<<"missing", ".py">>, "unreadable", <<>>),
     ExplicitFile(<<"n", ".py">>, "ok",
         <<TargetCall(Attribute(Name("self"), "coll"),
                      <<Constant(PyObj(<<"5">>))>>, <<>>)>>),
     WalkedFile(<<"pkg">>, <<"bad", ".py">>, "syntax_error", <<>>),
     WalkedFile(<<"pkg">>, <<"notes", ".txt">>, "ok", <<>>),
     WalkedFile(<<"pkg">>, <<"c", ".py">>, "ok", ScenarioA),
     WalkedFile(<<"pkg">>, <<"d", ".py">>, "ok",
         <<TargetCall(Subscript(Name("dbs")),
                      <<Constant(PyStr(<<"x">>))>>, <<>>)>>)}

\* main scans the explicit files first, then the walked ones.
RunFileLists ==
    {fs \in SeqsUpTo(RunFiles, MaxFiles) :
        /\ fs # <<>>
        /\ \A i, j \in DOMAIN fs : i < j /\ fs[i].walked => fs[j].walked}

\* --- one call: every shape of receiver and arguments, under curation rows
Receivers ==
    {Name("db"), Attribute(Name("db"), "view"), Attribute(Name("self"), "db"),
     Attribute(Name("self"), "coll"), Subscript(Name("dbs"))}

ArgExprs ==
    {Name("some_var"), Constant(PyStr(<<"x">>)), Constant(PyObj(<<"5">>)),
     JoinedStr(<<Constant(PyStr(<<"v_">>)), FormattedValue(Name("x"))>>),
     CallExpr("foo")}

Calls ==
    {TargetCall(r, a, k) :
        r \in Receivers, a \in SeqsUpTo(ArgExprs, MaxArgs),
        k \in {<<>>, <<"key">>}}
    \cup {Call(Attribute(Name("db"), "save"), <<Name("doc")>>, <<>>),
          Call(Name("len"), <<Name("some_var")>>, <<>>)}

CallSources ==
    UNION {{<<c>>, InFunction(<<"f">>, <<c>>),
            InClass(<<"A">>, InFunction(<<"f">>, <<c>>))} : c \in Calls}

CallRows ==
    LET r1 == Row(APy, <<>>, <<"f">>, Marker("db"), <<"users_db">>,
                  Marker("some_var"), <<"user_view">>)
        r2 == Row(APy, <<>>, <<"f">>, <<"db">>, <<"users_db">>,
                  <<"some_var">>, <<"user_view">>)
        r3 == Row(APy, <<>>, <<"f">>, <<"coll">>, <<"users">>,
                  <<"x">>, <<"by_x">>)
        r4 == Row(APy, <<>>, <<"f">>, Marker("db"), <<"other_db">>,
                  Marker("some_var"), <<"other_view">>)
        r5 == Row(APy, <<"A">>, <<"f">>, Marker("db"), <<"users_db">>,
                  Marker("some_var"), <<"user_view">>)
        r6 == Row(APy, <<>>, <<"f">>, Marker("db"), <<"users_db">>,
                  <<"x">>, <<"by_x">>)
    IN  {<<>>, <<r1>>, <<r2>>, <<r3>>, <<r5>>, <<r1, r4>>, <<r6, r1>>,
         <<r4, r3, r1>>}

CallResources == {Resource(TRUE, RequiredColumns, rows) : rows \in CallRows}

\* --- one file: every arrangement of definitions around one kind of call
PlainCall ==
    TargetCall(Attribute(Name("self"), "coll"),
               <<Constant(PyStr(<<"x">>))>>, <<>>)

\* Token sequences of the forests with exactly n nodes whose definitions
\* nest at most d deep; the definitions are not named yet.
RECURSIVE Forests(_, _)
Forests(n, d) ==
    IF n = 0 THEN {<<>>}
    ELSE {<<PlainCall>> \o rest : rest \in Forests(n - 1, d)}
         \cup (IF d = 0 THEN {}
               ELSE UNION {
                   {<<open>> \o body \o <<End(open.t)>> \o rest :
                       open \in {FunctionDef(<<>>), ClassDef(<<>>)},
                       body \in Forests(k, d - 1),
                       rest \in Forests(n - 1 - k, d)} : k \in 0..(n - 1)})

\* The visitor copies names and never compares them, so giving every
\* definition a name of its own (from its line) is the general case.
Named(src) ==
    [i \in DOMAIN src |->
        IF src[i].t = "FunctionDef"
        THEN FunctionDef(<<"f" \o ToString(i)>>)
        ELSE IF src[i].t = "ClassDef"
        THEN ClassDef(<<"C" \o ToString(i)>>)
        ELSE src[i]]

ScopeSources ==
    UNION {{Named(src) : src \in Forests(n, MaxDepth)} : n \in 0..MaxNodes}

\* --------------------------------------------------------- specifications
InitWith(res, fs) ==
    /\ pc = "parse"
    /\ resource = res
    /\ fields = <<>>
    /\ files = fs
    /\ fileIdx = 1
    /\ pos = 1
    /\ current_function = None
    /\ current_class = None
    /\ prev_function = None
    /\ function_calls = <<>>
    /\ ctxIdx = 1
    /\ out = <<>>

Init == \E res \in RunResources, fs \in RunFileLists : InitWith(res, fs)

InitCalls ==
    \E res \in CallResources, src \in CallSources :
        InitWith(res, <<ExplicitFile(APy, "ok", src)>>)

InitScopes ==
    \E src \in ScopeSources :
        InitWith(Resource(TRUE, RequiredColumns, <<>>),
                 <<ExplicitFile(APy, "ok", src)>>)


Next ==
    \/ parse
    \/ main_loop
    \/ visit_ClassDef
    \/ visit_ClassDef_return
    \/ visit_FunctionDef
    \/ visit_FunctionDef_return
    \/ visit_Call
    \/ check_file_loop
    \/ check_file_return
    \/ main_return

Spec == Init /\ [][Next]_vars

SpecCalls == InitCalls /\ [][Next]_vars

SpecScopes == InitScopes /\ [][Next]_vars

\* ------------------------------------------------- lexical structure
\* The lines of the definitions that are open at line p of src, outermost
\* first: what the source text says, whatever the visitor tracked.
RECURSIVE OpenAt(_, _, _, _)
OpenAt(src, i, p, open) ==
    IF i >= p THEN open
    ELSE IF src[i].t \in {"FunctionDef", "ClassDef"}
    THEN OpenAt(src, i + 1, p, Append(open, i))
    ELSE IF src[i].t = "End"
    THEN OpenAt(src, i + 1, p, SubSeq(open, 1, Len(open) - 1))
    ELSE OpenAt(src, i + 1, p, open)

EnclosingOf(src, p, type) ==
    SelectSeq(OpenAt(src, 1, p, <<>>), LAMBDA i : src[i].t = type)

\* The name of the innermost definition of the type around line p, or None.
InnermostName(src, p, type) ==
    LET e == EnclosingOf(src, p, type)
    IN  IF e = <<>> THEN None ELSE src[e[Len(e)]].name

\* Between lines a and b no function is defined inside another function
\* that is itself opened after line a: nesting there is one level deep.
OneLevelBetween(src, a, b) ==
    \A i \in (a + 1)..(b - 1) :
        src[i].t = "FunctionDef" =>
            \A j \in (a + 1)..(i - 1) :
                ~(\E k \in DOMAIN EnclosingOf(src, i, "FunctionDef") :
                    EnclosingOf(src, i, "FunctionDef")[k] = j)

\* Before line p every function is top-level or nested one level deep.
OneLevelBefore(src, p) ==
    \A i \in 1..(p - 1) :
        src[i].t = "FunctionDef" =>
            Len(EnclosingOf(src, i, "FunctionDef")) <= 1

\* ------------------------------------------------------------ scope claims
\* C2: for a function g defined one level inside a function f, a target call
\* inside g is recorded with enclosing_function = g and a target call of f's
\* body after g is recorded with enclosing_function = f: every record that
\* lies in a function whose nested functions so far are one level deep
\* carries the name of the innermost function around it.
C2_NestedFunctionScope ==
    pc = "check_file" =>
        \A n \in DOMAIN function_calls :
            LET r == function_calls[n]
                e == EnclosingOf(Src, r.line_number, "FunctionDef")
            IN  (e # <<>> /\ OneLevelBetween(Src, e[Len(e)], r.line_number))
                    => r.function_scope = Src[e[Len(e)]].name

\* A call inside g and a later call of f's body, g defined inside f, are
\* both recorded.
C2_Witness ==
    /\ pc = "check_file"
    /\ \E m, n \in DOMAIN function_calls :
        LET em == EnclosingOf(Src, function_calls[m].line_number, "FunctionDef")
            en == EnclosingOf(Src, function_calls[n].line_number, "FunctionDef")
        IN  /\ m < n
            /\ Len(em) = 2 /\ Len(en) = 1 /\ em[1] = en[1]
            /\ function_calls[m].function_scope = Src[em[2]].name
            /\ function_calls[n].function_scope = Src[en[1]].name

\* C8: after the visitor leaves a function definition nested at most one
\* level, current_function is what it was before the definition was entered,
\* the name of the function around the definition or None; a target call at
\* module level after a function that contains a nested function is recorded
\* with no enclosing function.
C8_FunctionScopeRestored ==
    pc = "check_file" =>
        /\ (/\ pos > 1
            /\ Src[pos - 1].t = "End"
            /\ Src[pos - 1].of = "FunctionDef"
            /\ OneLevelBefore(Src, pos))
              => current_function = InnermostName(Src, pos, "FunctionDef")
        /\ \A n \in DOMAIN function_calls :
              LET r == function_calls[n]
              IN  (/\ EnclosingOf(Src, r.line_number, "FunctionDef") = <<>>
                   /\ OneLevelBefore(Src, r.line_number))
                     => r.function_scope = None

\* C9: the enclosing_class of every record is the name of the innermost class
\* definition around the call, or None when no class encloses it.
C9_InnermostClass ==
    pc = "check_file" =>
        \A n \in DOMAIN function_calls :
            function_calls[n].class_scope =
                InnermostName(Src, function_calls[n].line_number, "ClassDef")


\* ------------------------------------------------------- resolution claims
\* What check_file put out for record n of the file it is at.
OutsOf(n) == SelectSeq(out, LAMBDA o : o.file = fileIdx /\ o.idx = n)

\* check_file's loop is running on, or has ended on, the collected records.
InLoop ==
    /\ pc \in {"check_file", "file_error"}
    /\ fileIdx <= Len(files)
    /\ files[fileIdx].content.status = "ok"
    /\ pos > Len(Src)

\* Record n has been through the loop, or the loop ended on it.
Handled(n) == n < ctxIdx \/ (pc = "file_error" /\ n = ctxIdx)

IsDirect(o, r) == o.kind = "print" /\ o.ctx = r

\* C1: a record with at least one matching entry under its key gets one
\* report per such entry and neither its direct report nor a suggestion;
\* every record yields exactly one of the three outcomes.
C1_CurationPrecedence ==
    InLoop =>
        \A n \in DOMAIN function_calls :
            Handled(n) =>
                LET r == function_calls[n]
                    m == compare_against_manual_curation(fields, r)
                    o == OutsOf(n)
                IN  IF m # <<>>
                    THEN /\ Len(o) = Len(m)
                         /\ \A i \in DOMAIN o :
                               o[i].kind = "print" /\ o[i].ctx = m[i]
                    ELSE /\ Len(o) = 1
                         /\ IsDirect(o[1], r) \/ o[1].kind = "suggestion"

\* A literal first argument on a receiver that is an attribute access and
\* involves no db.
LiteralCall(node) ==
    /\ node.args # <<>>
    /\ node.args[1].k = "Constant"
    /\ node.func.value.k = "Attribute"
    /\ node.func.value.attr # "db"
    /\ node.func.value.value # Name("db")

\* C3: a target call with a literal first argument and a non-db attribute
\* receiver puts out one direct report with the receiver name and the
\* literal of the source, whatever the curation table holds.
C3_LiteralDirect ==
    InLoop =>
        \A n \in DOMAIN function_calls :
            LET r == function_calls[n]
                node == Src[r.line_number]
                o == OutsOf(n)
            IN  (Handled(n) /\ LiteralCall(node)) =>
                    /\ Len(o) = 1
                    /\ o[1].kind = "print"
                    /\ o[1].ctx.object = <<node.func.value.attr>>
                    /\ o[1].ctx.argument = node.args[1].value

\* s is f"<variable:{id}>" for a name id
IsMarker(s) == Len(s) = 3 /\ s[1] = "<variable:" /\ s[3] = ">"

BothUnknown(r) ==
    IsMarker(r.object) /\ r.argument.type = "str" /\ IsMarker(r.argument.v)

EntriesOf(r) == IF to_key(r) \in DOMAIN fields THEN fields[to_key(r)] ELSE <<>>

Substituted(r, v) == [r EXCEPT !.object = v[2], !.argument = PyStr(v[4])]

\* C4 as claimed: an entry under the record's key that names the bare
\* receiver variable and the bare argument variable resolves the record.
C4_BareNamesMatch ==
    InLoop =>
        \A n \in DOMAIN function_calls :
            LET r == function_calls[n]
                e == EntriesOf(r)
            IN  (Handled(n) /\ BothUnknown(r)) =>
                    \A i \in DOMAIN e :
                        (e[i][1] = <<r.object[2]>> /\ e[i][3] = <<r.argument.v[2]>>)
                            => \E j \in DOMAIN OutsOf(n) :
                                  /\ OutsOf(n)[j].kind = "print"
                                  /\ OutsOf(n)[j].ctx = Substituted(r, e[i])

\* C4 amended: the entry has to name the marker texts <variable:name> of the
\* receiver and of the argument; then the record's reports are those of the
\* entries that do, receiver and argument replaced by the entry's values and
\* keyword names, class, function, file and line copied.
C4_MarkerTextsMatch ==
    InLoop =>
        \A n \in DOMAIN function_calls :
            LET r == function_calls[n]
                e == SelectSeq(EntriesOf(r),
                         LAMBDA v : v[1] = r.object /\ v[3] = r.argument.v)
                o == OutsOf(n)
            IN  (Handled(n) /\ BothUnknown(r) /\ e # <<>>) =>
                    /\ Len(o) = Len(e)
                    /\ \A i \in DOMAIN e :
                          /\ o[i].kind = "print"
                          /\ o[i].ctx = Substituted(r, e[i])

\* db.view_call(some_var, key=...) in f, resolved by an entry to users_db and
\* user_view.
C4_Witness ==
    /\ InLoop
    /\ \E n \in DOMAIN function_calls :
        /\ Handled(n)
        /\ BothUnknown(function_calls[n])
        /\ function_calls[n].keyword_arguments = <<"key">>
        /\ \E j \in DOMAIN OutsOf(n) :
              /\ OutsOf(n)[j].kind = "print"
              /\ OutsOf(n)[j].ctx.object = <<"users_db">>
              /\ OutsOf(n)[j].ctx.argument = PyStr(<<"user_view">>)
              /\ OutsOf(n)[j].ctx.keyword_arguments = <<"key">>
              /\ OutsOf(n)[j].ctx.function_scope = <<"f">>

\* ----------------------------------------------------- classification claims
\* The receiver rule as claimed: the base of the attribute access is db.
ClaimedReceiver(value) ==
    IF value.k = "Name" THEN Marker(value.id)
    ELSE IF value.value = Name("db") THEN Marker("db")
    ELSE <<value.attr>>

\* The receiver rule as amended: the accessed attribute is db.
AmendedReceiver(value) ==
    IF value.k = "Name" THEN Marker(value.id)
    ELSE IF value.attr = "db" THEN Marker("db")
    ELSE <<value.attr>>

\* <file>,,f,<variable:db>,---possible db value---,<variable:some_var>,
\* ---possible view value---
ScenarioLine ==
    APy \o <<",", ",", "f", ",">> \o Marker("db")
    \o <<",", "---possible db value---", ",">> \o Marker("some_var")
    \o <<",", "---possible view value---">>

\* def f(): self.db.view_call(some_var)
ScenarioSelfDb ==
    InFunction(<<"f">>,
        <<TargetCall(Attribute(Name("self"), "db"), <<Name("some_var")>>,
                     <<>>)>>)

\* The one call of source src, without a matching curation row, has been
\* answered by the suggestion line of the scenario (and its line end).
SuggestsScenarioLine(src) ==
    (/\ InLoop
     /\ Src = src
     /\ Handled(1)
     /\ compare_against_manual_curation(fields, function_calls[1]) = <<>>)
        => /\ Len(OutsOf(1)) = 1
           /\ OutsOf(1)[1].kind = "suggestion"
           /\ OutsOf(1)[1].text = ScenarioLine \o <<"\n">>

\* C5 as claimed: x.attr with x the name db is the unknown variable db, any
\* other attribute access the literal attribute name; db.view.view_call(
\* some_var) in f gets the suggestion line of scenario B.
C5_BaseNamedDb ==
    /\ pc = "check_file" =>
          \A n \in DOMAIN function_calls :
              function_calls[n].object =
                  ClaimedReceiver(Src[function_calls[n].line_number].func.value)
    /\ SuggestsScenarioLine(ScenarioB)

\* C5 amended: an attribute access whose accessed (rightmost) attribute is db
\* is the unknown variable db, any other attribute access the literal
\* attribute name, a bare name n the unknown variable n;
\* self.db.view_call(some_var) in f gets the suggestion line.
C5_AttributeNamedDb ==
    /\ pc = "check_file" =>
          \A n \in DOMAIN function_calls :
              function_calls[n].object =
                  AmendedReceiver(Src[function_calls[n].line_number].func.value)
    /\ SuggestsScenarioLine(ScenarioSelfDb)

\* self.db.view_call(some_var) in f, unresolved, has got the suggestion line.
C5_Witness ==
    /\ InLoop
    /\ Src = ScenarioSelfDb
    /\ Len(OutsOf(1)) = 1
    /\ OutsOf(1)[1].kind = "suggestion"
    /\ OutsOf(1)[1].text = ScenarioLine \o <<"\n">>

\* C10: the argument of a record is the classification of the first
\* positional argument of the call, however many follow, and the empty
\* literal when there is none.
C10_FirstArgument ==
    pc = "check_file" =>
        \A n \in DOMAIN function_calls :
            LET node == Src[function_calls[n].line_number]
            IN  function_calls[n].argument =
                    IF node.args = <<>> THEN PyStr(<<>>)
                    ELSE arg_value(node.args[1])

\* ------------------------------------------------------------- run claims
\* C6: a file that cannot be opened, parsed or visited is skipped; the later
\* files are scanned and the run ends normally.
C6_IsolateAndContinue ==
    /\ pc # "file_error"
    /\ pc = "done" =>
          \A i \in DOMAIN files :
              (files[i].content.status = "ok" /\ ~files[i].walked) =>
                  \A p \in DOMAIN files[i].content.src :
                      LET node == files[i].content.src[p]
                      IN  (node.t = "Call" /\ is_target(node)) =>
                              \E j \in DOMAIN out : out[j].file = i

\* C7: an unreadable curation file, or one that lacks a required column, ends
\* the run while loading: check_file is never called, nothing is put out.
C7_LoadFailsFirst ==
    (~resource.readable \/ ~(RequiredColumns \subseteq resource.columns))
        => pc \in {"parse", "load_error"} /\ out = <<>>


====
